---- MODULE Spec2Model ----
(***************************************************************************)
(* A model of the BTRFS metadata decoder of btrfscue (btrfs/btrfs.go):     *)
(* Header.Parse, Key.Parse, Item.Parse, Item.ParseData with the payload    *)
(* variants it dispatches to, and the two loops of Leaf.Parse.             *)
(*                                                                         *)
(* Number representation.  TLC integers are 32-bit signed, so:             *)
(*   - a uint32 that takes part in arithmetic (NrItems, Item.Offset,       *)
(*     Item.Size, headerEnd) and the cursor offset are pairs <<hi, lo>> of *)
(*     16-bit limbs, value hi * 65536 + lo;                                *)
(*   - a uint64 or a fixed byte array is kept as the sequence of bytes it  *)
(*     was read from (little-endian decoding is a bijection on them);      *)
(*   - uint16 and uint8 are plain integers.                                *)
(***************************************************************************)
EXTENDS Integers, Sequences, FiniteSets, TLC

VARIABLES
    buf,        \* the bytes behind the ParseBuffer (fixed during a decode)
    off,        \* ParseBuffer cursor offset, as a limb pair
    hdr,        \* l.Header
    Items,      \* l.Items
    headerEnd,  \* local of Leaf.Parse
    pc,         \* "caller", "scan", "resolve", "done"
    idx,        \* loop index of the running loop of Leaf.Parse (1-based)
    hdrParsed,  \* history: the caller ran l.Header.Parse(b) on this buffer
    entry,      \* history: cursor offset and Unread() on entry to Leaf.Parse
    seeks,      \* history: argument of b.SetOffset for each resolved item
    ends,       \* history: cursor offset after each item's ParseData
    reqs,       \* history: sizes asked of b.Next for variable-length fields
    log         \* history: order of descriptor reads and payload decodes

vars == <<buf, off, hdr, Items, headerEnd, pc, idx, hdrParsed, entry, seeks,
          ends, reqs, log>>

-----------------------------------------------------------------------------
(* Bounds of the model *)

\* descriptors physically present in a leaf image
MaxDesc == 2
\* bytes following the descriptor array in the small leaf images
ShortTail == 60
\* bytes following the descriptor in the payload images (holds a root item)
PayloadTail == 400
\* the same, long enough for a 255-byte name and more than one block of data
LongTail == 4500

-----------------------------------------------------------------------------
(* Arithmetic helpers *)

Min(a, b) == IF a < b THEN a ELSE b

Limb == 65536

\* uint32(n) for an int 0 <= n < 2^31
ToU32(n) == <<n \div Limb, n % Limb>>

\* the int value of a limb pair known to be below 2^31
IntOf(p) == p[1] * Limb + p[2]

U32Less(a, b) == a[1] < b[1] \/ (a[1] = b[1] /\ a[2] < b[2])

\* a + b in uint32 arithmetic (wraps modulo 2^32)
U32Add(a, b) ==
    LET lo == a[2] + b[2]
        hi == a[1] + b[1] + (lo \div Limb)
    IN  <<hi % Limb, lo % Limb>>

\* a + b over the naturals: <<carry, hi, lo>>
MathAdd(a, b) ==
    LET lo == a[2] + b[2]
        hi == a[1] + b[1] + (lo \div Limb)
    IN  <<hi \div Limb, hi % Limb, lo % Limb>>

Zeros(n) == [k \in 1..n |-> 0]

IsZero(bytes) == \A k \in 1..Len(bytes) : bytes[k] = 0

\* little-endian decoding of 1, 2 and 4 bytes
U8Of(b) == b[1]
U16Of(b) == b[1] + 256 * b[2]
U32Of(b) == <<b[3] + 256 * b[4], b[1] + 256 * b[2]>>

-----------------------------------------------------------------------------
(* ParseBuffer: the cursor over the byte slice *)

\* b.Unread(): bytes between the cursor and the end of the slice
Unread(b, o) ==
    IF U32Less(o, ToU32(Len(b))) THEN Len(b) - IntOf(o) ELSE 0

\* b.Next(n): up to n bytes from the cursor, which advances past them
\* (asked records n)
NextBytes(b, o, n) ==
    LET k == Min(n, Unread(b, o))
    IN  IF k = 0
        THEN [data |-> <<>>, off |-> o, asked |-> n]
        ELSE [data |-> SubSeq(b, IntOf(o) + 1, IntOf(o) + k),
              off  |-> ToU32(IntOf(o) + k), asked |-> n]

\* b.NextUint8/16/32/64 and copy(dst[:], b.Next(w)) into a zeroed array of w
\* bytes: the bytes read, zero-filled to the width w
NextFixed(b, o, w) ==
    LET r == NextBytes(b, o, w)
    IN  [data |-> r.data \o Zeros(w - Len(r.data)), off |-> r.off]

\* a run of fixed-width reads: the values in order and the final cursor
ReadFields(b, o, widths) ==
    LET st[j \in 0..Len(widths)] ==
            IF j = 0
            THEN [vals |-> <<>>, off |-> o]
            ELSE LET prev == st[j - 1]
                     r    == NextFixed(b, prev.off, widths[j])
                 IN  [vals |-> Append(prev.vals, r.data), off |-> r.off]
    IN  st[Len(widths)]

-----------------------------------------------------------------------------
(* Constants of the on-disk format *)

CSumSize == 32
UUIDSize == 16
DefaultBlockSize == 4096

InodeItemKey == 1
InodeRefKey == 12
InodeExtrefKey == 13
XAttrItemKey == 24
DirItemKey == 84
DirIndexKey == 96
ExtentDataKey == 108
ExtentCSumKey == 128
RootItemKey == 132
RootBackRefKey == 144
RootRefKey == 156
ExtentItemKey == 168
BlockGroupItemKey == 192

\* the tags Item.ParseData has a case for
DispatchedTags ==
    {InodeItemKey, InodeRefKey, XAttrItemKey, DirItemKey, DirIndexKey,
     ExtentDataKey, ExtentCSumKey, RootItemKey, RootBackRefKey, RootRefKey,
     ExtentItemKey, BlockGroupItemKey}

\* 0x19, "the typical item size without item data"
ItemSize == 25

\* the largest name Parse asks the buffer for
MaxNameLen == 255

-----------------------------------------------------------------------------
(* Header, Key and Item descriptor *)

HeaderWidths == <<CSumSize, UUIDSize, 8, 8, UUIDSize, 8, 8, 4, 1>>

HeaderOf(v) ==
    [CSum |-> v[1], FSID |-> v[2], ByteNr |-> v[3], Flags |-> v[4],
     ChunkTreeUUID |-> v[5], Generation |-> v[6], Owner |-> v[7],
     NrItems |-> U32Of(v[8]), Level |-> U8Of(v[9])]

ZeroHeader == HeaderOf([k \in 1..Len(HeaderWidths) |-> Zeros(HeaderWidths[k])])

HeaderParse(b, o) ==
    LET r == ReadFields(b, o, HeaderWidths)
    IN  [val |-> HeaderOf(r.vals), off |-> r.off]

\* the three reads of Key.Parse, found at v[i], v[i+1], v[i+2]
KeyWidths == <<8, 1, 8>>

KeyOf(v, i) ==
    [ObjectId |-> v[i], Type |-> U8Of(v[i + 1]), Offset |-> v[i + 2]]

ZeroKey == KeyOf(<<Zeros(8), Zeros(1), Zeros(8)>>, 1)

\* the nil itemData interface value
Nil == [kind |-> "nil"]

ZeroItem == [Key |-> ZeroKey, Offset |-> <<0, 0>>, Size |-> <<0, 0>>,
             Data |-> Nil]

\* Item.Parse applied to item it: the Key, Offset and Size; Data is left
ItemOf(it, v) ==
    [it EXCEPT !.Key = KeyOf(v, 1), !.Offset = U32Of(v[4]),
               !.Size = U32Of(v[5])]

ItemParse(it, b, o) ==
    LET r == ReadFields(b, o, KeyWidths \o <<4, 4>>)
    IN  [val |-> ItemOf(it, r.vals), off |-> r.off]

-----------------------------------------------------------------------------
(* Payload variants.  Each Parse yields the decoded record, the cursor     *)
(* after it, and the sizes it asked b.Next for on variable-length fields.  *)

\* l := int(len); if l > max { l = max }
ClampLen_Unclamped(l, max) == l

ClampLen(l, max) == IF l > max THEN max ELSE l

InodeItemWidths ==
    <<8, 8, 8, 8, 8, 4, 4, 4, 4, 8, 8, 8, 4 * 8, 8, 4, 8, 4, 8, 4, 8, 4>>

\* time.Time values are kept as the (sec, nsec) arguments given to time.Unix
InodeItemOf(v) ==
    [kind |-> "InodeItem", Generation |-> v[1], Transid |-> v[2],
     Size |-> v[3], Nbytes |-> v[4], BlockGroup |-> v[5], Nlink |-> v[6],
     Uid |-> v[7], Gid |-> v[8], Mode |-> v[9], Rdev |-> v[10],
     Flags |-> v[11], Sequence |-> v[12],
     Atime |-> <<v[14], v[15]>>, Ctime |-> <<v[16], v[17]>>,
     Mtime |-> <<v[18], v[19]>>, Otime |-> <<v[20], v[21]>>]

InodeItemParse(b, o) ==
    LET r == ReadFields(b, o, InodeItemWidths)
    IN  [val |-> InodeItemOf(r.vals), off |-> r.off, reqs |-> <<>>]

InodeRefItemOf(v, n) ==
    [val |-> [kind |-> "InodeRefItem", Index |-> v[1],
              NameLen |-> U16Of(v[2]), Name |-> n.data],
     off |-> n.off, reqs |-> <<n.asked>>]

InodeRefItemName(b, r) ==
    InodeRefItemOf(r.vals,
                   NextBytes(b, r.off, ClampLen(U16Of(r.vals[2]), MaxNameLen)))

InodeRefItemParse(b, o) == InodeRefItemName(b, ReadFields(b, o, <<8, 2>>))

\* Location (a Key), TransId, DataLen, NameLen, Type
DirItemWidths == KeyWidths \o <<8, 2, 2, 1>>

DirItemOf(v, n, d) ==
    [val |-> [kind |-> "DirItem", Location |-> KeyOf(v, 1),
              TransId |-> v[4], DataLen |-> U16Of(v[5]),
              NameLen |-> U16Of(v[6]), Type |-> U8Of(v[7]),
              Name |-> n.data, Data |-> d.data],
     off |-> d.off, reqs |-> <<n.asked, d.asked>>]

DirItemData(b, v, n) ==
    DirItemOf(v, n,
              NextBytes(b, n.off, ClampLen(U16Of(v[5]), DefaultBlockSize)))

DirItemName(b, r) ==
    DirItemData(b, r.vals,
                NextBytes(b, r.off, ClampLen(U16Of(r.vals[6]), MaxNameLen)))

DirItemParse(b, o) == DirItemName(b, ReadFields(b, o, DirItemWidths))

BlockGroupItemOf(v) ==
    [kind |-> "BlockGroupItem", Used |-> v[1], ChunkObjectId |-> v[2],
     Flags |-> v[3]]

BlockGroupItemParse(b, o) ==
    LET r == ReadFields(b, o, <<8, 8, 8>>)
    IN  [val |-> BlockGroupItemOf(r.vals), off |-> r.off, reqs |-> <<>>]

FileExtentItemOf(v) ==
    [kind |-> "FileExtentItem", Generation |-> v[1], RamBytes |-> v[2],
     Compression |-> U8Of(v[3]), Encryption |-> U8Of(v[4]),
     OtherEncoding |-> U16Of(v[5]), Type |-> U8Of(v[6]),
     DiskByteNr |-> v[7], DiskNumBytes |-> v[8], Offset |-> v[9],
     NumBytes |-> v[10]]

FileExtentItemParse(b, o) ==
    LET r == ReadFields(b, o, <<8, 8, 1, 1, 2, 1, 8, 8, 8, 8>>)
    IN  [val |-> FileExtentItemOf(r.vals), off |-> r.off, reqs |-> <<>>]

CSumItemParse(b, o) ==
    LET r == NextFixed(b, o, 1)
    IN  [val |-> [kind |-> "CSumItem", CSum |-> U8Of(r.data)],
         off |-> r.off, reqs |-> <<>>]

RootRefOf(v, n) ==
    [val |-> [kind |-> "RootRef", DirId |-> v[1], Sequence |-> v[2],
              NameLen |-> U16Of(v[3]), Name |-> n.data],
     off |-> n.off, reqs |-> <<n.asked>>]

RootRefName(b, r) ==
    RootRefOf(r.vals,
              NextBytes(b, r.off, ClampLen(U16Of(r.vals[3]), MaxNameLen)))

RootRefParse(b, o) == RootRefName(b, ReadFields(b, o, <<8, 8, 2>>))

ExtentItemOf(v) ==
    [kind |-> "ExtentItem", Refs |-> v[1], Generation |-> v[2],
     Flags |-> v[3]]

ExtentItemParse(b, o) ==
    LET r == ReadFields(b, o, <<8, 8, 8>>)
    IN  [val |-> ExtentItemOf(r.vals), off |-> r.off, reqs |-> <<>>]

\* if i.Generation == i.GenerationV2
RootItemGate_Always(gen, genV2) == TRUE

RootItemGate(gen, genV2) == gen = genV2

\* the reads of RootItem.Parse after the inode item, up to GenerationV2:
\* Generation, RootDirId, ByteNr, ByteLimit, LastSnapshot, Flags, Refs,
\* DropProgress (a Key), DropLevel, Level, GenerationV2
RootItemWidths == <<8, 8, 8, 8, 8, 8, 4, 8, 1, 8, 1, 1, 8>>

\* the reads of the extension block: three UUIDs, four transaction ids and
\* the eight reserved words
RootItemExtWidths ==
    <<UUIDSize, UUIDSize, UUIDSize, 8, 8, 8, 8, 8, 8, 8, 8, 8, 8, 8, 8>>

\* the extension block when the gate is closed: the fields keep their zero
\* values and the cursor stays
RootItemNoExt(o) ==
    [vals |-> [k \in 1..Len(RootItemExtWidths) |-> Zeros(RootItemExtWidths[k])],
     off |-> o]

\* BytesUsed is declared by the struct and assigned by no read
RootItemOf(ino, v, e) ==
    [kind |-> "RootItem", Inode |-> ino,
     Generation |-> v[1], RootDirId |-> v[2], ByteNr |-> v[3],
     ByteLimit |-> v[4], BytesUsed |-> Zeros(8), LastSnapshot |-> v[5],
     Flags |-> v[6], Refs |-> v[7],
     DropProgress |-> KeyOf(v, 8),
     DropLevel |-> U8Of(v[11]), Level |-> U8Of(v[12]),
     GenerationV2 |-> v[13],
     UUID |-> e[1], ParentUUID |-> e[2], ReceivedUUID |-> e[3],
     CTransId |-> e[4], OTransId |-> e[5], STransId |-> e[6],
     RTransId |-> e[7], Reserved |-> SubSeq(e, 8, 15)]

RootItemExt(b, o, open) ==
    IF open THEN ReadFields(b, o, RootItemExtWidths) ELSE RootItemNoExt(o)

RootItemFinish(ino, v, e) ==
    [val |-> RootItemOf(ino, v, e.vals), off |-> e.off, reqs |-> <<>>]

RootItemFixed(b, ino, r) ==
    RootItemFinish(ino, r.vals,
                   RootItemExt(b, r.off, RootItemGate(r.vals[1], r.vals[13])))

RootItemParse(b, o) ==
    LET ino == InodeItemParse(b, o)
    IN  RootItemFixed(b, ino.val, ReadFields(b, ino.off, RootItemWidths))

-----------------------------------------------------------------------------
(* Payload dispatch *)

\* the switch of Item.ParseData on the type tag t, with the cursor at o;
\* cur is the item's present Data, kept by the default case
ParseVariant(t, cur, b, o) ==
    IF t = InodeItemKey THEN InodeItemParse(b, o)
    ELSE IF t = InodeRefKey THEN InodeRefItemParse(b, o)
    ELSE IF t \in {XAttrItemKey, DirItemKey, DirIndexKey}
         THEN DirItemParse(b, o)
    ELSE IF t = ExtentDataKey THEN FileExtentItemParse(b, o)
    ELSE IF t = ExtentCSumKey THEN CSumItemParse(b, o)
    ELSE IF t = RootItemKey THEN RootItemParse(b, o)
    ELSE IF t \in {RootBackRefKey, RootRefKey} THEN RootRefParse(b, o)
    ELSE IF t = ExtentItemKey THEN ExtentItemParse(b, o)
    ELSE IF t = BlockGroupItemKey THEN BlockGroupItemParse(b, o)
    ELSE [val |-> cur, off |-> o, reqs |-> <<>>]

WithData(it, r) ==
    [val |-> [it EXCEPT !.Data = r.val], off |-> r.off, reqs |-> r.reqs]

\* Item.ParseData on item it with the cursor at o
ParseData(it, b, o) == WithData(it, ParseVariant(it.Key.Type, it.Data, b, o))

-----------------------------------------------------------------------------
(* Leaf.Parse *)

\* maxItems := b.Unread() / 0x19; numItems clamped to it
ClampItems_KeyWidth(nr, unread) ==
    LET maxItems == unread \div 17
    IN  IF U32Less(ToU32(maxItems), nr) THEN maxItems ELSE IntOf(nr)

ClampItems(nr, unread) ==
    LET maxItems == unread \div ItemSize
    IN  IF U32Less(ToU32(maxItems), nr) THEN maxItems ELSE IntOf(nr)

\* int(headerEnd + item.Offset), the sum taken in uint32
SeekTarget(hEnd, itemOff) == U32Add(hEnd, itemOff)

\* headerEnd := uint32(b.Offset()), the cursor being at o
HeaderEndAt_BlockStart(o) == <<0, 0>>

HeaderEndAt(o) == o

\* the caller decodes the block's header into l.Header
CallerHeaderParse ==
    /\ pc = "caller"
    /\ ~hdrParsed
    /\ LET r == HeaderParse(buf, off)
       IN  /\ hdr' = r.val
           /\ off' = r.off
    /\ hdrParsed' = TRUE
    /\ UNCHANGED <<buf, Items, headerEnd, pc, idx, entry, seeks, ends, reqs,
                   log>>

\* Leaf.Parse up to the allocation of l.Items
LeafParseEnter ==
    /\ pc = "caller"
    /\ entry' = [off |-> off, unread |-> Unread(buf, off)]
    /\ IF hdr.NrItems = <<0, 0>>
       THEN /\ pc' = "done"
            /\ UNCHANGED <<headerEnd, Items, idx>>
       ELSE LET numItems == ClampItems(hdr.NrItems, Unread(buf, off))
            IN  /\ headerEnd' = HeaderEndAt(off)
                /\ Items' = [k \in 1..numItems |-> ZeroItem]
                /\ idx' = 1
                /\ pc' = IF numItems = 0 THEN "done" ELSE "scan"
    /\ UNCHANGED <<buf, off, hdr, hdrParsed, seeks, ends, reqs, log>>

\* one iteration of the first loop: l.Items[i].Parse(b)
ItemParseStep_Interleaved ==
    /\ pc = "scan"
    /\ LET r == ItemParse(Items[idx], buf, off)
       IN  /\ Items' = [Items EXCEPT ![idx] = r.val]
           /\ off' = r.off
    /\ log' = Append(log, <<"desc", idx>>)
    /\ pc' = "resolve"
    /\ idx' = idx
    /\ UNCHANGED <<buf, hdr, headerEnd, hdrParsed, entry, seeks, ends, reqs>>

ItemParseStep ==
    /\ pc = "scan"
    /\ LET r == ItemParse(Items[idx], buf, off)
       IN  /\ Items' = [Items EXCEPT ![idx] = r.val]
           /\ off' = r.off
    /\ log' = Append(log, <<"desc", idx>>)
    /\ IF idx = Len(Items)
       THEN pc' = "resolve" /\ idx' = 1
       ELSE pc' = "scan" /\ idx' = idx + 1
    /\ UNCHANGED <<buf, hdr, headerEnd, hdrParsed, entry, seeks, ends, reqs>>

\* the effect of one iteration of the second loop, given the seek target t
\* and the result r of ParseData
Resolved(t, r) ==
    /\ Items' = [Items EXCEPT ![idx] = r.val]
    /\ off' = r.off
    /\ seeks' = Append(seeks, t)
    /\ ends' = Append(ends, r.off)
    /\ reqs' = Append(reqs, r.reqs)

\* b.SetOffset(t); item.ParseData(b)
ResolveAt_NoSeek(t) == Resolved(t, ParseData(Items[idx], buf, off))

ResolveAt(t) == Resolved(t, ParseData(Items[idx], buf, t))

\* one iteration of the second loop
ParseDataStep ==
    /\ pc = "resolve"
    /\ ResolveAt(SeekTarget(headerEnd, Items[idx].Offset))
    /\ log' = Append(log, <<"data", idx>>)
    /\ IF idx = Len(Items)
       THEN pc' = "done" /\ idx' = idx
       ELSE pc' = "resolve" /\ idx' = idx + 1
    /\ UNCHANGED <<buf, hdr, headerEnd, hdrParsed, entry>>

-----------------------------------------------------------------------------
(* Input images: a header, n item descriptors and a tail of payload bytes   *)

LE16(n) == <<n % 256, n \div 256>>
LE32(p) == LE16(p[2]) \o LE16(p[1])

\* filler for every byte an image does not set explicitly
Pattern(p) == (p * 37 + 11) % 256

HeaderLen == 101

\* the declared item counts tried
NrItemsSet == {<<0, 0>>, <<0, 1>>, <<0, 2>>, ToU32(1000000), <<65535, 65535>>}

\* the declared name and data lengths tried
NameLenSet == {0, 3, 255, 256, 65535}
DataLenSet == {0, 2, 4096, 4097, 65535}

\* descs: the n descriptors, each [Type, Offset, Size];
\* patch: [nameLen, dataLen, genEq] or Nil for an unpatched tail
Image(nr, descs, tailLen, patch) ==
    LET n  == Len(descs)
        t0 == HeaderLen + ItemSize * n
        DescByte(p) ==
            LET j == ((p - HeaderLen - 1) \div ItemSize) + 1
                k == (p - HeaderLen - 1) % ItemSize
            IN  IF k = 8 THEN descs[j].Type
                ELSE IF k \in 17..20 THEN LE32(descs[j].Offset)[k - 16]
                ELSE IF k \in 21..24 THEN LE32(descs[j].Size)[k - 20]
                ELSE Pattern(p)
        TailByte(p) ==
            LET k == p - t0 - 1
            IN  IF patch = Nil THEN Pattern(p)
                ELSE IF k \in {8, 9} THEN LE16(patch.nameLen)[k - 7]
                ELSE IF k \in {16, 17} THEN LE16(patch.nameLen)[k - 15]
                ELSE IF k \in {25, 26} THEN LE16(patch.dataLen)[k - 24]
                ELSE IF k \in {27, 28} THEN LE16(patch.nameLen)[k - 26]
                ELSE IF k \in 231..238 /\ patch.genEq THEN Pattern(p - 71)
                ELSE Pattern(p)
    IN  [p \in 1..(t0 + tailLen) |->
            IF p \in 97..100 THEN LE32(nr)[p - 96]
            ELSE IF p = HeaderLen THEN 0
            ELSE IF p < HeaderLen THEN Pattern(p)
            ELSE IF p <= t0 THEN DescByte(p)
            ELSE TailByte(p)]

\* where a descriptor of an n-descriptor leaf image may point, with its size
Locators(n) ==
    {<<ToU32(ItemSize * n), <<0, 160>>>>, <<ToU32(ItemSize * n), <<0, 0>>>>,
     <<<<32768, 0>>, <<0, 160>>>>, <<<<65535, 65535>>, <<0, 160>>>>}

LeafTags == {InodeItemKey, InodeRefKey, 0}

DescSet(n) ==
    {[Type |-> t, Offset |-> l[1], Size |-> l[2]] :
        t \in LeafTags, l \in Locators(n)}

PayloadTags == DispatchedTags \cup {0, InodeExtrefKey}

InitState(b) ==
    /\ buf = b
    /\ off = <<0, 0>>
    /\ hdr = ZeroHeader
    /\ Items = <<>>
    /\ headerEnd = <<0, 0>>
    /\ pc = "caller"
    /\ idx = 0
    /\ hdrParsed = FALSE
    /\ entry = [off |-> <<0, 0>>, unread |-> 0]
    /\ seeks = <<>>
    /\ ends = <<>>
    /\ reqs = <<>>
    /\ log = <<>>

\* leaf images: up to MaxDesc descriptors, any declared count
InitLeaf ==
    \E n \in 0..MaxDesc, nr \in NrItemsSet, tailLen \in {0, ShortTail} :
        \E descs \in [1..n -> DescSet(n)] :
            InitState(Image(nr, descs, tailLen, Nil))

\* payload images: one descriptor of any tag, its payload right behind it
InitPayload ==
    \E t \in PayloadTags, nl \in NameLenSet, dl \in DataLenSet,
       ge \in BOOLEAN, tailLen \in {PayloadTail, LongTail} :
        InitState(Image(<<0, 1>>,
                        <<[Type |-> t, Offset |-> ToU32(ItemSize),
                           Size |-> <<0, 160>>]>>,
                        tailLen,
                        [nameLen |-> nl, dataLen |-> dl, genEq |-> ge]))

Init == InitLeaf \/ InitPayload

Next == CallerHeaderParse \/ LeafParseEnter \/ ItemParseStep \/ ParseDataStep

Spec == Init /\ [][Next]_vars

-----------------------------------------------------------------------------
(* Properties *)

\* n bytes of the image from 0-based offset s
Slice(s, n) == SubSeq(buf, s + 1, s + n)

\* the bytes [s, s + n) lie inside the image
Fits(s, n) == s + n <= Len(buf)

\* a cursor value small enough to be used as an integer
Small(p) == p[1] = 0

\* the item count stored in the block's header
BlockNrItems == U32Of(Slice(96, 4))

\* the items whose payload has been resolved
ResolvedItems == 1..Len(seeks)

\* the seek target of item j lies beyond the end of the buffer
BeyondEnd(j) == U32Less(ToU32(Len(buf)), seeks[j])

\* C1: the number of decoded items is min(NrItems, floor(unread bytes after
\* the header / 25)), whatever count the header declares.
C1_ItemCount ==
    pc # "caller" =>
        IF hdrParsed
        THEN LET room == (Len(buf) - 101) \div 25
             IN  Len(Items) = IF U32Less(ToU32(room), BlockNrItems)
                              THEN room
                              ELSE BlockNrItems[2]
        ELSE Len(Items) = 0

C1_Witness ==
    /\ pc = "done"
    /\ hdrParsed
    /\ BlockNrItems = <<65535, 65535>>
    /\ (Len(buf) - 101) \div 25 = 3
    /\ Len(Items) = 3

C3_NoPayloadBeyondEnd ==
    \A j \in ResolvedItems : BeyondEnd(j) => Items[j].Data = Nil

\* C4: the extension block of a root item is read exactly when the decoded
\* Generation equals GenerationV2; otherwise its fields stay zero and the
\* cursor ends right after the 8 bytes of GenerationV2.
C4_GenerationGate ==
    \A j \in ResolvedItems :
        LET d == Items[j].Data
            s == seeks[j][2]
        IN  (d.kind = "RootItem" /\ Small(seeks[j]) /\ Fits(s, 383)) =>
                /\ d.GenerationV2 = Slice(s + 231, 8)
                /\ IF d.Generation = d.GenerationV2
                   THEN /\ d.UUID = Slice(s + 239, 16)
                        /\ d.ParentUUID = Slice(s + 255, 16)
                        /\ d.ReceivedUUID = Slice(s + 271, 16)
                        /\ d.CTransId = Slice(s + 287, 8)
                        /\ d.OTransId = Slice(s + 295, 8)
                        /\ d.STransId = Slice(s + 303, 8)
                        /\ d.RTransId = Slice(s + 311, 8)
                        /\ ends[j] = ToU32(s + 383)
                   ELSE /\ IsZero(d.UUID)
                        /\ IsZero(d.ParentUUID)
                        /\ IsZero(d.ReceivedUUID)
                        /\ IsZero(d.CTransId)
                        /\ IsZero(d.OTransId)
                        /\ IsZero(d.STransId)
                        /\ IsZero(d.RTransId)
                        /\ \A k \in 1..8 : IsZero(d.Reserved[k])
                        /\ ends[j] = ToU32(s + 239)

C4_Witness ==
    \E j \in ResolvedItems :
        /\ Items[j].Data.kind = "RootItem"
        /\ Small(seeks[j])
        /\ Fits(seeks[j][2], 383)
        /\ Items[j].Data.Generation = Items[j].Data.GenerationV2
        /\ ~IsZero(Items[j].Data.UUID)
        /\ ends[j] = ToU32(seeks[j][2] + 383)

\* the descriptor of item j as it stands in the image
DescAt(j) == IntOf(entry.off) + 25 * (j - 1)

\* C5: an item with a tag outside the dispatched set ends with no payload
\* and keeps its Key, Offset and Size, and every item's payload is the one
\* determined by the buffer, headerEnd and its own descriptor alone.
C5_UnknownTag ==
    \A j \in ResolvedItems :
        /\ Items[j].Key.Type \notin
               {1, 12, 24, 84, 96, 108, 128, 132, 144, 156, 168, 192} =>
            /\ Items[j].Data = Nil
            /\ Items[j].Key.ObjectId = Slice(DescAt(j), 8)
            /\ Items[j].Key.Type = buf[DescAt(j) + 9]
            /\ Items[j].Key.Offset = Slice(DescAt(j) + 9, 8)
            /\ Items[j].Offset = U32Of(Slice(DescAt(j) + 17, 4))
            /\ Items[j].Size = U32Of(Slice(DescAt(j) + 21, 4))
        /\ Items[j].Data =
               ParseVariant(Items[j].Key.Type, Nil, buf,
                            U32Add(headerEnd, Items[j].Offset)).val

C5_Witness ==
    /\ pc = "done"
    /\ Len(Items) = 2
    /\ Items[1].Key.Type = 0
    /\ Items[1].Data = Nil
    /\ Items[2].Key.Type = 12
    /\ Items[2].Data # Nil
    /\ Len(Items[2].Data.Name) > 0

\* C6: the bytes asked of the buffer for a name are min(NameLen, 255) and for
\* inline data min(DataLen, 4096); Name and Data never exceed those, and the
\* stored NameLen and DataLen are the declared values.
C6_LengthClamps ==
    \A j \in ResolvedItems :
        LET d == Items[j].Data
            s == seeks[j][2]
        IN  /\ d.kind \in {"InodeRefItem", "RootRef"} =>
                /\ reqs[j] = <<IF d.NameLen < 255 THEN d.NameLen ELSE 255>>
                /\ Len(d.Name) <= 255
            /\ d.kind = "DirItem" =>
                /\ reqs[j] = <<IF d.NameLen < 255 THEN d.NameLen ELSE 255,
                               IF d.DataLen < 4096 THEN d.DataLen ELSE 4096>>
                /\ Len(d.Name) <= 255
                /\ Len(d.Data) <= 4096
            /\ (d.kind = "InodeRefItem" /\ Small(seeks[j]) /\ Fits(s, 10)) =>
                d.NameLen = buf[s + 9] + 256 * buf[s + 10]
            /\ (d.kind = "RootRef" /\ Small(seeks[j]) /\ Fits(s, 18)) =>
                d.NameLen = buf[s + 17] + 256 * buf[s + 18]
            /\ (d.kind = "DirItem" /\ Small(seeks[j]) /\ Fits(s, 30)) =>
                /\ d.DataLen = buf[s + 26] + 256 * buf[s + 27]
                /\ d.NameLen = buf[s + 28] + 256 * buf[s + 29]

C6_Witness ==
    \E j \in ResolvedItems :
        /\ Items[j].Data.kind = "DirItem"
        /\ Items[j].Data.NameLen = 65535
        /\ Items[j].Data.DataLen = 65535
        /\ Len(Items[j].Data.Name) = 255
        /\ Len(Items[j].Data.Data) = 4096

\* the number of descriptor reads recorded so far
DescReads == Cardinality({k \in 1..Len(log) : log[k][1] = "desc"})

\* C7: all descriptors are decoded, in index order, before the first payload
\* is decoded, and none is decoded after it.
C7_TwoPhases ==
    /\ \A k \in 1..Len(log) :
           log[k] = IF k <= DescReads THEN <<"desc", k>>
                    ELSE <<"data", k - DescReads>>
    /\ Len(log) > DescReads => DescReads = Len(Items)

C7_Witness ==
    /\ pc = "done"
    /\ Len(Items) = 3
    /\ Len(log) = 6

\* C8: payloads are resolved in index order and each seek goes to the
\* mathematical sum headerEnd + item.Offset, never below headerEnd.
C8_SeekIsSum ==
    \A j \in ResolvedItems :
        /\ <<0>> \o seeks[j] = MathAdd(headerEnd, Items[j].Offset)
        /\ ~U32Less(seeks[j], headerEnd)
        /\ log[DescReads + j] = <<"data", j>>

\* C9: after the inode item every declared field up to GenerationV2 is read
\* from its own slot of the on-disk root item, in declaration order.
C9_RootItemLayout ==
    \A j \in ResolvedItems :
        LET d == Items[j].Data
            s == seeks[j][2]
        IN  (d.kind = "RootItem" /\ Small(seeks[j]) /\ Fits(s, 247)) =>
                /\ d.Generation = Slice(s + 160, 8)
                /\ d.RootDirId = Slice(s + 168, 8)
                /\ d.ByteNr = Slice(s + 176, 8)
                /\ d.ByteLimit = Slice(s + 184, 8)
                /\ d.BytesUsed = Slice(s + 192, 8)
                /\ d.LastSnapshot = Slice(s + 200, 8)
                /\ d.Flags = Slice(s + 208, 8)
                /\ d.Refs = Slice(s + 216, 4)
                /\ d.DropProgress.ObjectId = Slice(s + 220, 8)
                /\ d.DropProgress.Type = buf[s + 229]
                /\ d.DropProgress.Offset = Slice(s + 229, 8)
                /\ d.DropLevel = buf[s + 238]
                /\ d.Level = buf[s + 239]
                /\ d.GenerationV2 = Slice(s + 239, 8)

\* C10: a payload decode consumes no byte outside
\* [headerEnd + Offset, headerEnd + Offset + Size).
C10_StaysInLocator ==
    \A j \in ResolvedItems :
        \/ ends[j] = seeks[j]
        \/ ~U32Less(Items[j].Size, ToU32(IntOf(ends[j]) - IntOf(seeks[j])))

====
